---- MODULE Spec2Model ----
(***************************************************************************)
(* Network crawler service (package svc) and the network node record       *)
(* (package types) of fantom-api-graphql.                                  *)
(*                                                                         *)
(* Spec      : the life cycle of one networkCrawler: init, run, the crawl  *)
(*             goroutine and stop requests of the orchestrator.            *)
(* SpecLive  : Spec with the fairness of run() and the crawl goroutine.    *)
(* SpecScore : score and timestamps of NetworkNode records under probes.   *)
(* SpecBSON  : MarshalBSON and UnmarshalBSON of a NetworkNode.             *)
(* SpecRepo  : Close of the repository proxy and its background routines.  *)
(***************************************************************************)
EXTENDS Integers, Sequences, FiniteSets, TLC

(***************************************************************************)
(* Bounds of the model.                                                    *)
(***************************************************************************)
\* longest list of bootstrap urls in the configuration
MaxBoot == 2
\* number of init() calls the orchestrator may make
MaxInit == 2
\* number of stop requests the orchestrator may make
MaxStop == 2
\* configured maximum of a node score
MaxScore == 4
\* number of probe results applied in one behaviour
MaxProbes == 4
\* number of node records
MaxNodes == 2
\* largest timestamp of an encoded record, in clock ticks
MaxStamp == 3
\* clock ticks in one millisecond (time.Time counts nanoseconds)
TicksPerMilli == 2
\* background routines the scanner may register in the wait group
MaxRoutines == 2
\* uses of the connections by the background routines
MaxWork == 2

\* capacity of the stop channel made by init: make(chan bool, 1)
SigStopCap == 1

VARIABLES
    \* configuration (process wide cfg object), fixed for a behaviour
    cfgKey,         \* cfg.Sig.PrivateKey != nil
    cfgBootstrap,   \* cfg.LocalNode.V5Bootstrap: a sequence of urls
    \* networkCrawler fields
    necCfg,         \* nec.cfg: NilCfg or [PrivateKey, Bootnodes]
    necDb,          \* nec.db: "nil" or "open"
    necNode,        \* nec.node: "nil" or "local"
    necDisc,        \* nec.disc: "nil", "open" or "closed"
    isReady,        \* nec.isReady
    sigStop,        \* nec.sigStop: NilChan or [cap, len]
    \* the UDP socket opened by listen: "none", "open" or "closed"
    socket,
    \* orchestrator (nec.mgr) signal counters
    started,
    finished,
    \* positions of run() and of the crawl goroutine
    runPc,
    crawlPc,
    \* history of the calls made so far
    initCalls,
    initOks,
    lastInitOk,
    stopReqs,
    closeCalls,
    \* NetworkNode records and the probe history of each
    nn,
    hist,
    probes,
    \* the clock read by time.Now()
    now,
    \* BSON encoding of a record: the record encoded, the stored document,
    \* the receiver of UnmarshalBSON (now and before the call), the error
    \* returned and the position in the encode/decode sequence
    rec,
    doc,
    recv,
    recvOld,
    bsonErr,
    bsonPc,
    \* repository proxy: the scanner's stop channel, the routines of the wait
    \* group, the position of Close, the connections, the work done by the
    \* routines and whether any of it met a closed connection
    scanChan,
    routine,
    closePc,
    dbConn,
    rpcConn,
    work,
    lateUse

necVars   == <<necCfg, necDb, necNode, necDisc, isReady, sigStop, socket>>
cfgVars   == <<cfgKey, cfgBootstrap>>
mgrVars   == <<started, finished>>
pcVars    == <<runPc, crawlPc>>
histVars  == <<initCalls, initOks, lastInitOk, stopReqs, closeCalls>>
crawlerVars == <<cfgVars, necVars, mgrVars, pcVars, histVars>>
scoreVars == <<nn, hist, probes, now>>
bsonVars  == <<rec, doc, recv, recvOld, bsonErr, bsonPc>>
proxyVars == <<scanChan, routine, closePc, dbConn, rpcConn, work, lateUse>>
vars      == <<crawlerVars, scoreVars, bsonVars, proxyVars>>

(***************************************************************************)
(* Values.                                                                 *)
(***************************************************************************)
\* a nil *enode.Node
NilNode == [id |-> "nil", host |-> "", port |-> 0]
\* a nil *discover.Config
NilCfg == [PrivateKey |-> "nil", Bootnodes |-> <<>>, set |-> FALSE]
\* a nil channel
NilChan == [cap |-> 0, len |-> 0, made |-> FALSE]

\* An url is a sequence of tokens: an optional scheme prefix and a body.
Urls ==
    { <<"enode://", "a@1.2.3.4:30303">>,
      <<"enode://", "b@1.2.3.5:30303">>,
      <<"enode://", "zz">>,
      <<"http://", "a@1.2.3.4:30303">>,
      <<"a@1.2.3.4:30303">> }

\* bodies enode.ParseV4 accepts, and the node each one denotes
NodeOfBody ==
    [b \in {"a@1.2.3.4:30303", "b@1.2.3.5:30303"} |->
        IF b = "a@1.2.3.4:30303"
        THEN [id |-> "a", host |-> "1.2.3.4", port |-> 30303]
        ELSE [id |-> "b", host |-> "1.2.3.5", port |-> 30303]]

\* sequences over S of length at most n
SeqUpTo(S, n) == UNION { [1..k -> S] : k \in 0..n }

(***************************************************************************)
(* url2node and the library parser it calls.                               *)
(***************************************************************************)
\* strings.HasPrefix(url, "enode://")
HasPrefix(url) == Len(url) >= 1 /\ url[1] = "enode://"

\* enode.ParseV4: the enode:// prefix is optional, the body must parse
ParseV4(url) ==
    LET body == IF HasPrefix(url) THEN Tail(url) ELSE url
    IN  IF Len(body) = 1 /\ body[1] \in DOMAIN NodeOfBody
        THEN [node |-> NodeOfBody[body[1]], err |-> FALSE]
        ELSE [node |-> NilNode, err |-> TRUE]

url2node(url) ==
    IF ~HasPrefix(url)
    THEN [node |-> NilNode, err |-> TRUE]
    ELSE ParseV4(url)

(***************************************************************************)
(* configure and its steps, as functions of the configuration and of the   *)
(* outcome of the calls into the environment.                              *)
(***************************************************************************)
\* setPrivateKey: genErr is the outcome of crypto.GenerateKey
setPrivateKey(genErr) ==
    IF ~cfgKey
    THEN [key |-> IF genErr THEN "nil" ELSE "generated", err |-> genErr]
    ELSE [key |-> "config", err |-> FALSE]

\* a loop that parses every url and reports the error at the end
RECURSIVE bootLoop_continue(_, _)
bootLoop_continue(boot, i) ==
    IF i > Len(cfgBootstrap)
    THEN [Bootnodes |-> boot,
          err |-> \E k \in 1..Len(cfgBootstrap) : url2node(cfgBootstrap[k]).err]
    ELSE bootLoop_continue([boot EXCEPT ![i] = url2node(cfgBootstrap[i]).node],
                           i + 1)

\* the loop of setBootstrap from index i on; boot is nec.cfg.Bootnodes
RECURSIVE bootLoop(_, _)
bootLoop(boot, i) ==
    IF i > Len(cfgBootstrap)
    THEN [Bootnodes |-> boot, err |-> FALSE]
    ELSE LET r == url2node(cfgBootstrap[i])
             b == [boot EXCEPT ![i] = r.node]
         IN  IF r.err
             THEN [Bootnodes |-> b, err |-> TRUE]
             ELSE bootLoop(b, i + 1)

setBootstrap ==
    bootLoop([i \in 1..Len(cfgBootstrap) |-> NilNode], 1)

\* openNodesDatabase: dbErr is the outcome of enode.OpenDB
openNodesDatabase(dbErr) ==
    [db |-> IF dbErr THEN necDb ELSE "open", err |-> dbErr]

\* configure: the new nec.cfg, the new nec.db and the error returned
configure(genErr, dbErr) ==
    LET k == setPrivateKey(genErr)
        c1 == [PrivateKey |-> k.key, Bootnodes |-> <<>>, set |-> TRUE]
    IN  IF k.err
        THEN [cfg |-> c1, db |-> necDb, err |-> TRUE]
        ELSE LET b == setBootstrap
                 c2 == [c1 EXCEPT !.Bootnodes = b.Bootnodes]
             IN  IF b.err
                 THEN [cfg |-> c2, db |-> necDb, err |-> TRUE]
                 ELSE LET d == openNodesDatabase(dbErr)
                      IN  [cfg |-> c2, db |-> d.db, err |-> d.err]

(***************************************************************************)
(* init                                                                    *)
(***************************************************************************)
\* make(chan bool, 1)
MakeSigStop_unbuffered == [cap |-> 0, len |-> 0, made |-> TRUE]
MakeSigStop == [cap |-> SigStopCap, len |-> 0, made |-> TRUE]

\* nec.isReady after init: set only when configure returned no error
readyAfter_always(err) == TRUE
readyAfter(err) == IF err THEN isReady ELSE TRUE

\* The orchestrator calls init before run and before it asks for a stop.
init(genErr, dbErr) ==
    /\ initCalls < MaxInit
    /\ runPc = "idle"
    /\ stopReqs = 0
    /\ LET r == configure(genErr, dbErr)
       IN  /\ sigStop' = MakeSigStop
           /\ necCfg' = r.cfg
           /\ necDb' = r.db
           /\ isReady' = readyAfter(r.err)
           /\ initOks' = IF r.err THEN initOks ELSE initOks + 1
           /\ lastInitOk' = ~r.err
    /\ initCalls' = initCalls + 1
    /\ UNCHANGED <<cfgVars, necNode, necDisc, socket, mgrVars, pcVars,
                   stopReqs, closeCalls, scoreVars, bsonVars, proxyVars>>

(***************************************************************************)
(* run: the ready check, the local node and listen are one step of the     *)
(* orchestrator's thread; the started signal and the go statement follow.  *)
(***************************************************************************)
\* listen: sockErr and discErr are the outcomes of net.ListenPacket and of
\* discover.ListenV5; a socket opened before ListenV5 fails is not closed
listen(sockErr, discErr) ==
    IF sockErr
    THEN [socket |-> socket, disc |-> necDisc, err |-> TRUE]
    ELSE IF discErr
         THEN [socket |-> "open", disc |-> "nil", err |-> TRUE]
         ELSE [socket |-> "open", disc |-> "open", err |-> FALSE]

\* a run that goes on although listen returned an error
runAfterListen_ignoreErr(err) == "listening"

\* where run continues after listen: it returns if listen failed
runAfterListen(err) == IF err THEN "listenfail" ELSE "listening"

runBegin(sockErr, discErr) ==
    /\ runPc = "idle"
    /\ initCalls >= 1
    /\ IF ~isReady
       THEN /\ runPc' = "notready"
            /\ UNCHANGED <<necNode, necDisc, socket>>
       ELSE IF necCfg.PrivateKey = "nil"
            THEN \* enode.NewLocalNode dereferences the nil key
                 /\ runPc' = "panic"
                 /\ UNCHANGED <<necNode, necDisc, socket>>
            ELSE LET l == listen(sockErr, discErr)
                 IN  /\ necNode' = "local"
                     /\ socket' = l.socket
                     /\ necDisc' = l.disc
                     /\ runPc' = runAfterListen(l.err)
    /\ UNCHANGED <<cfgVars, necCfg, necDb, isReady, sigStop, mgrVars, crawlPc,
                   histVars, scoreVars, bsonVars, proxyVars>>

\* nec.mgr.started(nec)
runStarted ==
    /\ runPc = "listening"
    /\ started' = started + 1
    /\ runPc' = "signalled"
    /\ UNCHANGED <<cfgVars, necVars, finished, crawlPc, histVars, scoreVars, bsonVars, proxyVars>>

\* crawl() called without the go keyword: run returns after the teardown
runGo_sync ==
    /\ runPc = "signalled"
    /\ necDisc' = "closed"
    /\ socket' = "closed"
    /\ closeCalls' = closeCalls + 1
    /\ finished' = finished + 1
    /\ crawlPc' = "done"
    /\ runPc' = "returned"
    /\ UNCHANGED <<cfgVars, necCfg, necDb, necNode, isReady, sigStop, started,
                   initCalls, initOks, lastInitOk, stopReqs, scoreVars, bsonVars, proxyVars>>

\* go nec.crawl(), and run returns
runGo ==
    /\ runPc = "signalled"
    /\ crawlPc' = "spawned"
    /\ runPc' = "returned"
    /\ UNCHANGED <<cfgVars, necVars, mgrVars, histVars, scoreVars, bsonVars, proxyVars>>

(***************************************************************************)
(* crawl: the body is empty, the deferred function closes the discovery    *)
(* and signals the orchestrator.  The stop channel is not read.            *)
(***************************************************************************)
\* the deferred function without its nec.disc.Close()
crawlClose_skip ==
    /\ crawlPc = "spawned"
    /\ crawlPc' = "closing"
    /\ UNCHANGED <<cfgVars, necVars, mgrVars, runPc, histVars, scoreVars, bsonVars, proxyVars>>

\* nec.disc.Close(): this also closes the connection
crawlClose ==
    /\ crawlPc = "spawned"
    /\ necDisc' = "closed"
    /\ socket' = "closed"
    /\ closeCalls' = closeCalls + 1
    /\ crawlPc' = "closing"
    /\ UNCHANGED <<cfgVars, necCfg, necDb, necNode, isReady, sigStop, mgrVars,
                   runPc, initCalls, initOks, lastInitOk, stopReqs, scoreVars, bsonVars, proxyVars>>

\* a crawl that ends without telling the orchestrator
crawlFinished_silent ==
    /\ crawlPc = "closing"
    /\ crawlPc' = "done"
    /\ UNCHANGED <<cfgVars, necVars, mgrVars, runPc, histVars, scoreVars, bsonVars, proxyVars>>

\* nec.mgr.finished(nec)
crawlFinished ==
    /\ crawlPc = "closing"
    /\ finished' = finished + 1
    /\ crawlPc' = "done"
    /\ UNCHANGED <<cfgVars, necVars, started, runPc, histVars, scoreVars, bsonVars, proxyVars>>

(***************************************************************************)
(* stop: a notification into the single slot of the stop channel; a        *)
(* request that finds no free slot is dropped.                             *)
(***************************************************************************)
notify(ch) == IF ch.len < ch.cap THEN [ch EXCEPT !.len = @ + 1] ELSE ch

stop ==
    /\ initCalls >= 1
    /\ stopReqs < MaxStop
    /\ sigStop' = notify(sigStop)
    /\ stopReqs' = stopReqs + 1
    /\ UNCHANGED <<cfgVars, necCfg, necDb, necNode, necDisc, isReady, socket,
                   mgrVars, pcVars, initCalls, initOks, lastInitOk, closeCalls,
                   scoreVars, bsonVars, proxyVars>>

(***************************************************************************)
(* NetworkNode.Score: incremented every time the node is detected (up to   *)
(* the configured maximum) and halved if a check fails.                    *)
(***************************************************************************)
Nodes == 1..MaxNodes

Min(a, b) == IF a <= b THEN a ELSE b

RECURSIVE Pow2(_)
Pow2(n) == IF n = 0 THEN 1 ELSE 2 * Pow2(n - 1)

\* integer division of Go, which truncates towards zero
GoDiv(a, b) == IF a >= 0 THEN a \div b ELSE -((-a) \div b)

scoreOnSuccess_uncapped(s) == s + 1
scoreOnSuccess(s) == Min(s + 1, MaxScore)

scoreOnFailure_decrement(s) == s - 1
scoreOnFailure_roundUp(s) == GoDiv(s + 1, 2)
scoreOnFailure(s) == GoDiv(s, 2)

\* the streak of equal probe results a record is in, extended by result op
\* (r is the record before the probe; prev keeps it for the last probe)
streak(h, r, op) ==
    IF h.op = op
    THEN [h EXCEPT !.n = @ + 1, !.prev = r]
    ELSE [s0 |-> r.Score, n |-> 1, op |-> op, prev |-> r]

\* the zero time.Time: a timestamp that is absent
ZeroTime == 0

\* a record first found at time t with score s: never probed with success,
\* and its discovery is its first check
newNode(s, t) ==
    [Score |-> s, Found |-> t, LastResponse |-> ZeroTime, LastCheck |-> t]

\* the record after a successful probe at time t
onSuccess(r, t) ==
    [r EXCEPT !.Score = scoreOnSuccess(@), !.LastResponse = t, !.LastCheck = t]

\* a failed probe that also stamps the response time
onFailure_stampResponse(r, t) ==
    [r EXCEPT !.Score = scoreOnFailure(@), !.LastResponse = t, !.LastCheck = t]

\* the record after a failed probe at time t
onFailure(r, t) ==
    [r EXCEPT !.Score = scoreOnFailure(@), !.LastCheck = t]

\* every probe result is applied at a later reading of the clock
probeSuccess(i) ==
    /\ probes < MaxProbes
    /\ now' = now + 1
    /\ nn' = [nn EXCEPT ![i] = onSuccess(@, now')]
    /\ hist' = [hist EXCEPT ![i] = streak(@, nn[i], "ok")]
    /\ probes' = probes + 1
    /\ UNCHANGED <<crawlerVars, bsonVars, proxyVars>>

probeFailure(i) ==
    /\ probes < MaxProbes
    /\ now' = now + 1
    /\ nn' = [nn EXCEPT ![i] = onFailure(@, now')]
    /\ hist' = [hist EXCEPT ![i] = streak(@, nn[i], "fail")]
    /\ probes' = probes + 1
    /\ UNCHANGED <<crawlerVars, bsonVars, proxyVars>>

(***************************************************************************)
(* NetworkNode.MarshalBSON and UnmarshalBSON.  A document holds the url of *)
(* the node and BSON datetimes, which count whole milliseconds.            *)
(***************************************************************************)
\* bodies of enr: urls, and the node each one denotes
EnrOfBody ==
    [b \in {"c@1.2.3.6:30303"} |-> [id |-> "c", host |-> "1.2.3.6", port |-> 30303]]

\* enode.Node.String(): the enode:// url of a v4 node, the enr: text of others
NodeString(n) ==
    IF \E b \in DOMAIN NodeOfBody : NodeOfBody[b] = n
    THEN <<"enode://", CHOOSE b \in DOMAIN NodeOfBody : NodeOfBody[b] = n>>
    ELSE <<"enr:", CHOOSE b \in DOMAIN EnrOfBody : EnrOfBody[b] = n>>

\* enode.Parse(enode.ValidSchemes, url): enode:// urls go to ParseV4, all
\* others need the enr: prefix
Parse(url) ==
    IF HasPrefix(url)
    THEN ParseV4(url)
    ELSE IF Len(url) = 2 /\ url[1] = "enr:" /\ url[2] \in DOMAIN EnrOfBody
         THEN [node |-> EnrOfBody[url[2]], err |-> FALSE]
         ELSE [node |-> NilNode, err |-> TRUE]

\* bson encoding of a time.Time: milliseconds, the rest is dropped
ToDateTime(t) == t \div TicksPerMilli

\* bson decoding of a datetime
FromDateTime(ms) == ms * TicksPerMilli

\* data bson.Unmarshal cannot decode into the row
Garbage ==
    [ok |-> FALSE, scheme |-> "", url |-> <<>>, score |-> 0,
     found |-> 0, valid |-> 0, check |-> 0]

\* an encoding that stores the check time as the response time
MarshalBSON_mixedTimes(r) ==
    [ok |-> TRUE, scheme |-> "v4", url |-> NodeString(r.Node), score |-> r.Score,
     found |-> ToDateTime(r.Found),
     valid |-> ToDateTime(r.LastCheck),
     check |-> ToDateTime(r.LastCheck)]

MarshalBSON(r) ==
    [ok |-> TRUE, scheme |-> "v4", url |-> NodeString(r.Node), score |-> r.Score,
     found |-> ToDateTime(r.Found),
     valid |-> ToDateTime(r.LastResponse),
     check |-> ToDateTime(r.LastCheck)]

\* a decoding that copies score and timestamps before it parses the url
UnmarshalBSON_copyFirst(r, d) ==
    IF ~d.ok
    THEN [nn |-> r, err |-> TRUE]
    ELSE LET p == Parse(d.url)
         IN  [nn |-> [Node |-> p.node, Score |-> d.score,
                      Found |-> FromDateTime(d.found),
                      LastResponse |-> FromDateTime(d.valid),
                      LastCheck |-> FromDateTime(d.check)],
              err |-> p.err]

\* UnmarshalBSON on receiver r and data d: the receiver afterwards and the
\* error; a failed enode.Parse has already assigned nil to nn.Node
UnmarshalBSON(r, d) ==
    IF ~d.ok
    THEN [nn |-> r, err |-> TRUE]
    ELSE LET p == Parse(d.url)
         IN  IF p.err
             THEN [nn |-> [r EXCEPT !.Node = p.node], err |-> TRUE]
             ELSE [nn |-> [Node |-> p.node, Score |-> d.score,
                           Found |-> FromDateTime(d.found),
                           LastResponse |-> FromDateTime(d.valid),
                           LastCheck |-> FromDateTime(d.check)],
                   err |-> FALSE]

\* urls of stored documents that enode.Parse rejects
MalformedUrls ==
    { <<"http://", "a@1.2.3.4:30303">>, <<"enode://", "zz">>,
      <<"a@1.2.3.4:30303">>, <<"enr:", "zz">> }

\* encode the record into the store
marshal ==
    /\ bsonPc = "start"
    /\ IF rec.Node = NilNode
       THEN \* nn.Node.String() on a nil node
            /\ bsonPc' = "panic"
            /\ doc' = doc
       ELSE /\ doc' = MarshalBSON(rec)
            /\ bsonPc' = "stored"
    /\ UNCHANGED <<rec, recv, recvOld, bsonErr, crawlerVars, scoreVars, proxyVars>>

\* the stored document becomes one with a malformed url
corruptUrl(u) ==
    /\ bsonPc = "stored"
    /\ doc' = [doc EXCEPT !.url = u]
    /\ bsonPc' = "corrupt"
    /\ UNCHANGED <<rec, recv, recvOld, bsonErr, crawlerVars, scoreVars, proxyVars>>

\* the stored data becomes undecodable
corruptData ==
    /\ bsonPc = "stored"
    /\ doc' = Garbage
    /\ bsonPc' = "corrupt"
    /\ UNCHANGED <<rec, recv, recvOld, bsonErr, crawlerVars, scoreVars, proxyVars>>

\* decode the stored data into the receiver
unmarshal ==
    /\ bsonPc \in {"stored", "corrupt"}
    /\ LET u == UnmarshalBSON(recv, doc)
       IN  /\ recv' = u.nn
           /\ bsonErr' = u.err
    /\ recvOld' = recv
    /\ bsonPc' = IF bsonPc = "stored" THEN "roundtrip" ELSE "decoded"
    /\ UNCHANGED <<rec, doc, crawlerVars, scoreVars, proxyVars>>

(***************************************************************************)
(* Specifications.                                                         *)
(***************************************************************************)
\* the receiver UnmarshalBSON is called on: a record of an earlier decode
Receiver ==
    [Node |-> NodeOfBody["b@1.2.3.5:30303"], Score |-> MaxScore,
     Found |-> 1, LastResponse |-> 1, LastCheck |-> 1]

\* nothing encoded or decoded
InitBson ==
    /\ rec = Receiver
    /\ doc = Garbage
    /\ recv = Receiver
    /\ recvOld = Receiver
    /\ bsonErr = FALSE
    /\ bsonPc = "idle"

\* no repository
InitProxy ==
    /\ scanChan = NilChan
    /\ routine = [i \in 1..MaxRoutines |-> "none"]
    /\ closePc = "none"
    /\ dbConn = "none"
    /\ rpcConn = "none"
    /\ work = 0
    /\ lateUse = FALSE

\* the crawler after construction: the zero value of the struct
InitCrawler ==
    /\ necCfg = NilCfg
    /\ necDb = "nil"
    /\ necNode = "nil"
    /\ necDisc = "nil"
    /\ isReady = FALSE
    /\ sigStop = NilChan
    /\ socket = "none"
    /\ started = 0
    /\ finished = 0
    /\ runPc = "idle"
    /\ crawlPc = "none"
    /\ initCalls = 0
    /\ initOks = 0
    /\ lastInitOk = FALSE
    /\ stopReqs = 0
    /\ closeCalls = 0

NoHist == [s0 |-> 0, n |-> 0, op |-> "none", prev |-> newNode(0, ZeroTime)]

Init ==
    /\ cfgKey \in BOOLEAN
    /\ cfgBootstrap \in SeqUpTo(Urls, MaxBoot)
    /\ InitCrawler
    /\ nn = [i \in Nodes |-> newNode(0, 1)]
    /\ hist = [i \in Nodes |-> NoHist]
    /\ probes = 0
    /\ now = 1
    /\ InitBson
    /\ InitProxy

Next ==
    \/ \E genErr \in BOOLEAN, dbErr \in BOOLEAN : init(genErr, dbErr)
    \/ \E sockErr \in BOOLEAN, discErr \in BOOLEAN : runBegin(sockErr, discErr)
    \/ runStarted
    \/ runGo
    \/ crawlClose
    \/ crawlFinished
    \/ stop

Spec == Init /\ [][Next]_vars

\* run() goes on to its go statement once it has signalled, and the Go
\* scheduler runs the crawl goroutine, whose steps do not block
SpecLive ==
    /\ Spec
    /\ WF_vars(runGo)
    /\ WF_vars(crawlClose)
    /\ WF_vars(crawlFinished)

InitScore ==
    /\ cfgKey = FALSE
    /\ cfgBootstrap = <<>>
    /\ InitCrawler
    /\ now = 1
    /\ nn \in [Nodes -> {newNode(s, now) : s \in 0..MaxScore}]
    /\ hist = [i \in Nodes |-> [NoHist EXCEPT !.s0 = nn[i].Score, !.prev = nn[i]]]
    /\ probes = 0
    /\ InitBson
    /\ InitProxy

NextScore ==
    \/ \E i \in Nodes : probeSuccess(i)
    \/ \E i \in Nodes : probeFailure(i)

SpecScore == InitScore /\ [][NextScore]_vars

\* records to encode: any node (or none), a score, any three timestamps
Stamps == 0..MaxStamp

Records ==
    [Node : {NodeOfBody["a@1.2.3.4:30303"], EnrOfBody["c@1.2.3.6:30303"], NilNode},
     Score : {0, 1},
     Found : Stamps, LastResponse : Stamps, LastCheck : Stamps]

InitBSON ==
    /\ cfgKey = FALSE
    /\ cfgBootstrap = <<>>
    /\ InitCrawler
    /\ nn = [i \in Nodes |-> newNode(0, 1)]
    /\ hist = [i \in Nodes |-> NoHist]
    /\ probes = 0
    /\ now = 1
    /\ InitProxy
    /\ rec \in Records
    /\ doc = Garbage
    /\ recv = Receiver
    /\ recvOld = Receiver
    /\ bsonErr = FALSE
    /\ bsonPc = "start"

NextBSON ==
    \/ marshal
    \/ \E u \in MalformedUrls : corruptUrl(u)
    \/ corruptData
    \/ unmarshal

SpecBSON == InitBSON /\ [][NextBSON]_vars

(***************************************************************************)
(* Repository proxy: New starts the blockchain scanner, which registers    *)
(* its routines in the wait group and returns its stop channel; Close      *)
(* signals the scanner, waits for the wait group and closes connections.   *)
(***************************************************************************)
Routines == 1..MaxRoutines

\* routine 1 is the scanner, which reads the stop channel; the others are
\* routines it registered
Scanner == 1

\* a routine counted by the wait group: Add was called and Done was not
Active(i) == routine[i] \in {"running", "stopping"}

\* channels ScanBlockChain may return: none, unbuffered or buffered
ScanChans ==
    { NilChan,
      [cap |-> 0, len |-> 0, made |-> TRUE],
      [cap |-> 1, len |-> 0, made |-> TRUE] }

\* Close: p.sigScannerStop <- true, skipped for a nil channel; the send
\* goes into a free buffer slot or is handed to the scanner waiting on it
closeSend ==
    /\ closePc = "idle"
    /\ IF ~scanChan.made
       THEN UNCHANGED <<scanChan, routine>>
       ELSE IF scanChan.len < scanChan.cap
            THEN /\ scanChan' = [scanChan EXCEPT !.len = @ + 1]
                 /\ UNCHANGED routine
            ELSE /\ routine[Scanner] = "running"
                 /\ routine' = [routine EXCEPT ![Scanner] = "stopping"]
                 /\ UNCHANGED scanChan
    /\ closePc' = "sent"
    /\ UNCHANGED <<dbConn, rpcConn, work, lateUse, crawlerVars, scoreVars, bsonVars>>

\* a Close that does not wait for the wait group
closeWait_noWait ==
    /\ closePc = "sent"
    /\ closePc' = "waited"
    /\ UNCHANGED <<scanChan, routine, dbConn, rpcConn, work, lateUse,
                   crawlerVars, scoreVars, bsonVars>>

\* Close: p.waitGroup.Wait() returns when no routine is counted
closeWait ==
    /\ closePc = "sent"
    /\ \A i \in Routines : ~Active(i)
    /\ closePc' = "waited"
    /\ UNCHANGED <<scanChan, routine, dbConn, rpcConn, work, lateUse,
                   crawlerVars, scoreVars, bsonVars>>

\* Close: p.db.Close()
closeDb ==
    /\ closePc = "waited"
    /\ dbConn' = "closed"
    /\ closePc' = "dbclosed"
    /\ UNCHANGED <<scanChan, routine, rpcConn, work, lateUse,
                   crawlerVars, scoreVars, bsonVars>>

\* Close: p.rpc.Close()
closeRpc ==
    /\ closePc = "dbclosed"
    /\ rpcConn' = "closed"
    /\ closePc' = "done"
    /\ UNCHANGED <<scanChan, routine, dbConn, work, lateUse,
                   crawlerVars, scoreVars, bsonVars>>

\* the scanner takes a buffered stop signal
scannerRecv ==
    /\ routine[Scanner] = "running"
    /\ scanChan.len > 0
    /\ scanChan' = [scanChan EXCEPT !.len = @ - 1]
    /\ routine' = [routine EXCEPT ![Scanner] = "stopping"]
    /\ UNCHANGED <<closePc, dbConn, rpcConn, work, lateUse,
                   crawlerVars, scoreVars, bsonVars>>

\* a routine ends and calls Done: the scanner after the stop signal, a
\* routine it registered at any time
routineExit(i) ==
    /\ IF i = Scanner THEN routine[i] = "stopping" ELSE routine[i] = "running"
    /\ routine' = [routine EXCEPT ![i] = "done"]
    /\ UNCHANGED <<scanChan, closePc, dbConn, rpcConn, work, lateUse,
                   crawlerVars, scoreVars, bsonVars>>

\* a routine that has not ended uses the database and the RPC connection
routineWork(i) ==
    /\ Active(i)
    /\ work < MaxWork
    /\ work' = work + 1
    /\ lateUse' = (lateUse \/ dbConn = "closed" \/ rpcConn = "closed")
    /\ UNCHANGED <<scanChan, routine, closePc, dbConn, rpcConn,
                   crawlerVars, scoreVars, bsonVars>>

\* the proxy New returns: connections open, scanner started
InitRepo ==
    /\ cfgKey = FALSE
    /\ cfgBootstrap = <<>>
    /\ InitCrawler
    /\ nn = [i \in Nodes |-> newNode(0, 1)]
    /\ hist = [i \in Nodes |-> NoHist]
    /\ probes = 0
    /\ now = 1
    /\ InitBson
    /\ scanChan \in ScanChans
    /\ routine \in [Routines -> {"none", "running"}]
    /\ closePc = "idle"
    /\ dbConn = "open"
    /\ rpcConn = "open"
    /\ work = 0
    /\ lateUse = FALSE

NextRepo ==
    \/ closeSend
    \/ closeWait
    \/ closeDb
    \/ closeRpc
    \/ scannerRecv
    \/ \E i \in Routines : routineExit(i)
    \/ \E i \in Routines : routineWork(i)

SpecRepo == InitRepo /\ [][NextRepo]_vars

(***************************************************************************)
(* Properties of the crawler life cycle (Spec).                            *)
(***************************************************************************)
\* C1: while no init has passed its configure step, the crawler is not
\* running: run() has sent no "started" signal, no discovery socket is
\* open and no crawl loop exists, also after run() was called.
C1_FailedConfigureNeverRuns ==
    initOks = 0 =>
        /\ ~isReady
        /\ started = 0
        /\ socket = "none"
        /\ necDisc = "nil"
        /\ crawlPc = "none"
        /\ runPc \in {"idle", "notready"}

\* C1 witness: every init failed in configure and run() has been called.
C1_Witness == initCalls >= 1 /\ initOks = 0 /\ runPc = "notready"

\* C2: a crawler that reached running has sent "started" exactly once, the
\* signal precedes the crawl goroutine, and the step in which run() returns
\* leaves the goroutine just spawned: run() does not wait for its end.
C2_StartedOnceBeforeLoop ==
    /\ [](/\ started <= 1
          /\ (runPc \in {"signalled", "returned"} <=> started = 1)
          /\ (crawlPc # "none" => started = 1))
    /\ [][runPc = "signalled" /\ runPc' = "returned" => crawlPc' = "spawned"]_vars

\* C2 witness: run() has returned after the signal and the crawl goroutine
\* has not yet run.
C2_Witness == runPc = "returned" /\ started = 1 /\ crawlPc = "spawned"

\* C3: "finished" is sent at most once, by the crawl goroutine at its end,
\* and never before the discovery (and with it the socket) has been closed.
C3_CloseThenFinishedOnce ==
    /\ finished <= 1
    /\ (crawlPc = "done" <=> finished = 1)
    /\ (finished = 1 => necDisc = "closed" /\ socket = "closed" /\ closeCalls = 1)

\* C3 witness: a stop is pending in the channel, the discovery is closed and
\* "finished" has been sent.
C3_Witness ==
    /\ stopReqs >= 1
    /\ sigStop.len = 1
    /\ necDisc = "closed"
    /\ finished = 1

\* C4: the discovery is closed only when a stop has been requested, is
\* closed at most once, and no socket stays open once the crawl has ended.
C4_ClosedOnceOnlyAtStop ==
    /\ (closeCalls > 0 => stopReqs > 0)
    /\ closeCalls <= 1
    /\ (crawlPc = "done" => socket # "open")

\* C6: after init the stop channel exists with a single slot; the first stop
\* request fills the slot, the notification stays pending (also when no
\* crawl loop reads it) and further requests leave the channel as it is.
C6_StopSingleSlot ==
    /\ [](/\ (initCalls >= 1 => sigStop.made /\ sigStop.len <= 1)
          /\ (stopReqs >= 1 => sigStop.len = 1))
    /\ [][stopReqs >= 1 /\ stopReqs' > stopReqs => sigStop' = sigStop]_vars

\* C6 witness: two stop requests were made on a crawler whose loop never
\* started, and one notification is pending.
C6_Witness ==
    /\ stopReqs = 2
    /\ sigStop.len = 1
    /\ runPc = "notready"
    /\ crawlPc = "none"

(***************************************************************************)
(* Properties of the node score (SpecScore).                               *)
(***************************************************************************)
\* number of halvings that take score s to 0
RECURSIVE FailuresToZero(_)
FailuresToZero(s) == IF s <= 0 THEN 0 ELSE 1 + FailuresToZero(s \div 2)

\* C8: every node record has a score of at least 0, whatever the sequence
\* of successful and failed probes applied to the records.
C8_ScoreNonNegative == \A i \in Nodes : nn[i].Score >= 0

\* C8 witness: after an earlier success somewhere, a record was halved
\* down to 0 and halved again.
C8_Witness ==
    /\ probes >= 3
    /\ \E i \in Nodes : hist[i].op = "fail" /\ hist[i].n >= 2 /\ nn[i].Score = 0
    /\ \E j \in Nodes : hist[j].op = "ok"

\* C9: after n consecutive successful probes from score s0 the score is
\* min(s0 + n, MaxScore).
C9_SuccessStreak ==
    \A i \in Nodes :
        hist[i].op = "ok" =>
            nn[i].Score = Min(hist[i].s0 + hist[i].n, MaxScore)

\* C9 witness: a streak of successes that ran into the maximum.
C9_Witness ==
    \E i \in Nodes :
        /\ hist[i].op = "ok"
        /\ hist[i].n >= 2
        /\ hist[i].s0 + hist[i].n > MaxScore
        /\ nn[i].Score = MaxScore

\* C10: after n consecutive failed probes from score s0 the score is
\* floor(s0 / 2^n); it is 0 from the FailuresToZero(s0)-th failure on.
C10_FailureStreak ==
    \A i \in Nodes :
        hist[i].op = "fail" =>
            /\ nn[i].Score = hist[i].s0 \div Pow2(hist[i].n)
            /\ (hist[i].n >= FailuresToZero(hist[i].s0) => nn[i].Score = 0)

\* C10 witness: a record of score 3 or more failed until it reached 0 and
\* failed once more.
C10_Witness ==
    \E i \in Nodes :
        /\ hist[i].op = "fail"
        /\ hist[i].s0 >= 3
        /\ hist[i].n > FailuresToZero(hist[i].s0)
        /\ nn[i].Score = 0

\* C11: every record has Found <= LastCheck and, when it has a response
\* time, LastResponse <= LastCheck; Found is the time the record was made;
\* the last probe of a record, if it failed, left LastResponse as it was.
C11_Timestamps ==
    \A i \in Nodes :
        /\ nn[i].Found <= nn[i].LastCheck
        /\ (nn[i].LastResponse # ZeroTime => nn[i].LastResponse <= nn[i].LastCheck)
        /\ nn[i].Found = 1
        /\ (hist[i].op # "none" => nn[i].Found = hist[i].prev.Found)
        /\ (hist[i].op = "fail" => nn[i].LastResponse = hist[i].prev.LastResponse)

\* C11 witness: a record that answered a probe and then failed a later one.
C11_Witness ==
    \E i \in Nodes :
        /\ hist[i].op = "fail"
        /\ nn[i].LastResponse # ZeroTime
        /\ nn[i].LastResponse < nn[i].LastCheck
        /\ nn[i].Found < nn[i].LastResponse

(***************************************************************************)
(* Bootstrap resolution (Spec).                                            *)
(***************************************************************************)
\* an url of the form enode://<id>@<host>:<port> with a known body
WellFormed(url) ==
    Len(url) = 2 /\ url[1] = "enode://" /\ url[2] \in DOMAIN NodeOfBody

\* indexes of the urls of the configuration that are not well formed
BadUrls == { i \in 1..Len(cfgBootstrap) : ~WellFormed(cfgBootstrap[i]) }

\* the first of them
FirstBad == CHOOSE i \in BadUrls : \A j \in BadUrls : i <= j

\* C12: once init has reached setBootstrap, nec.cfg.Bootnodes has the length
\* of the url list; with every url well formed its i-th entry is the node
\* of the i-th url; otherwise the entries before the first bad url are
\* parsed, that entry and all later ones are nil, and isReady is false.
C12_BootstrapFailFast ==
    (necCfg.set /\ necCfg.PrivateKey # "nil") =>
        /\ Len(necCfg.Bootnodes) = Len(cfgBootstrap)
        /\ IF BadUrls = {}
           THEN \A i \in 1..Len(cfgBootstrap) :
                    necCfg.Bootnodes[i] = NodeOfBody[cfgBootstrap[i][2]]
           ELSE /\ \A i \in 1..Len(cfgBootstrap) :
                       necCfg.Bootnodes[i] =
                           IF i < FirstBad
                           THEN NodeOfBody[cfgBootstrap[i][2]]
                           ELSE NilNode
                /\ ~isReady
                /\ ~lastInitOk

\* C12 witness: init ran on a list whose first url is bad and whose second
\* url is well formed, and the second entry was left nil.
C12_Witness ==
    /\ initCalls >= 1
    /\ necCfg.set
    /\ necCfg.PrivateKey # "nil"
    /\ Len(cfgBootstrap) = 2
    /\ ~WellFormed(cfgBootstrap[1])
    /\ WellFormed(cfgBootstrap[2])
    /\ necCfg.Bootnodes[2] = NilNode

\* C12 witness of the other case is part of the formula's first branch: a
\* list of two well formed urls resolved in order.
C12_OrderKept ==
    /\ necCfg.set
    /\ Len(cfgBootstrap) = 2
    /\ BadUrls = {}
    /\ cfgBootstrap[1] # cfgBootstrap[2]
    /\ necCfg.Bootnodes = <<NodeOfBody[cfgBootstrap[1][2]], NodeOfBody[cfgBootstrap[2][2]]>>

(***************************************************************************)
(* Start-up failures and signal pairing (Spec, SpecLive).                  *)
(***************************************************************************)
\* listen was called by run() and returned an error: the local node exists
\* and nec.disc was left nil
ListenFailed == necNode = "local" /\ necDisc = "nil"

\* C16: when listen fails in run() of a ready crawler (no socket, or the
\* discovery protocol does not start), run() returns at once: no "started"
\* signal, no crawl goroutine and no "finished" signal.
C16_ListenFailureInert ==
    ListenFailed =>
        /\ runPc = "listenfail"
        /\ started = 0
        /\ crawlPc = "none"
        /\ finished = 0

\* C16 witness: a ready crawler whose socket was opened and whose discovery
\* protocol failed to start, with a stop requested afterwards.
C16_Witness ==
    /\ isReady
    /\ ListenFailed
    /\ socket = "open"
    /\ runPc = "listenfail"
    /\ stopReqs >= 1

\* C18: "finished" signals never outnumber "started" signals, and every
\* "started" is followed by a "finished".
C18_FinishedPairsStarted ==
    /\ [](finished <= started)
    /\ ((started = 1) ~> (finished = 1))

\* C18 witness: the crawl goroutine of a started crawler has signalled
\* "finished" with no stop requested.
C18_Witness == started = 1 /\ finished = 1 /\ crawlPc = "done" /\ stopReqs = 0

\* the configuration configure builds when all of its steps succeed
FullyConfigured ==
    /\ necCfg.set
    /\ necCfg.PrivateKey # "nil"
    /\ Len(necCfg.Bootnodes) = Len(cfgBootstrap)
    /\ \A i \in 1..Len(necCfg.Bootnodes) : necCfg.Bootnodes[i] # NilNode
    /\ necDb = "open"

\* C19: isReady holds only if the configure step of the latest init
\* succeeded, and then the configuration is complete.
C19_ReadyOnlyIfLastInitOk ==
    isReady => (lastInitOk /\ FullyConfigured)

(***************************************************************************)
(* Properties of the BSON encoding (SpecBSON).                             *)
(***************************************************************************)
\* a timestamp cut to whole milliseconds
TruncMilli(t) == t - (t % TicksPerMilli)

\* C15 as stated: decoding the encoding of a record gives back its node,
\* score and its three timestamps.
C15_RoundTripExact ==
    bsonPc = "roundtrip" =>
        /\ ~bsonErr
        /\ recv = rec

\* C15 amended: decoding the encoding of a record whose node is set gives
\* back its node and score, and each timestamp cut to whole milliseconds
\* (so the same timestamp when it has no part below a millisecond).
C15_RoundTripMillis ==
    bsonPc = "roundtrip" =>
        /\ ~bsonErr
        /\ doc.scheme = "v4"
        /\ recv.Node = rec.Node
        /\ recv.Score = rec.Score
        /\ recv.Found = TruncMilli(rec.Found)
        /\ recv.LastResponse = TruncMilli(rec.LastResponse)
        /\ recv.LastCheck = TruncMilli(rec.LastCheck)
        /\ (rec.Found % TicksPerMilli = 0 => recv.Found = rec.Found)

\* C15 witness: a record with an enr node was encoded and decoded, its
\* response time kept and its found time cut.
C15_Witness ==
    /\ bsonPc = "roundtrip"
    /\ rec.Node = EnrOfBody["c@1.2.3.6:30303"]
    /\ recv.Node = rec.Node
    /\ rec.LastResponse # rec.LastCheck
    /\ recv.LastResponse = rec.LastResponse
    /\ recv.Found # rec.Found

\* C20: when UnmarshalBSON returns an error the receiver keeps its Score,
\* Found, LastResponse and LastCheck.
C20_ErrorKeepsFields ==
    (bsonPc \in {"roundtrip", "decoded"} /\ bsonErr) =>
        /\ recv.Score = recvOld.Score
        /\ recv.Found = recvOld.Found
        /\ recv.LastResponse = recvOld.LastResponse
        /\ recv.LastCheck = recvOld.LastCheck

\* C20 witness: a decodable document with a malformed url and other field
\* values than the receiver's was decoded with an error; the receiver lost
\* its node and kept the four fields.
C20_Witness ==
    /\ bsonPc = "decoded"
    /\ bsonErr
    /\ doc.ok
    /\ doc.score # recvOld.Score
    /\ FromDateTime(doc.check) # recvOld.LastCheck
    /\ recvOld.Node # NilNode
    /\ recv.Node = NilNode
    /\ recv.Score = recvOld.Score

(***************************************************************************)
(* Properties of the repository proxy (SpecRepo).                          *)
(***************************************************************************)
\* C17: Close has sent the terminate signal (when the channel exists)
\* before it waits; it is past the wait only when no routine of the wait
\* group is left; a connection is closed only after the wait, the database
\* before the RPC connection; no routine ever met a closed connection.
C17_CloseOrder ==
    /\ (closePc # "idle" /\ scanChan.made) =>
            (scanChan.len = 1 \/ routine[Scanner] \in {"stopping", "done"})
    /\ closePc \in {"waited", "dbclosed", "done"} => \A i \in Routines : ~Active(i)
    /\ dbConn = "closed" <=> closePc \in {"dbclosed", "done"}
    /\ rpcConn = "closed" <=> closePc = "done"
    /\ (dbConn = "closed" \/ rpcConn = "closed") => \A i \in Routines : ~Active(i)
    /\ ~lateUse

\* C17 witness: Close ran to its end on a proxy with a stop channel and two
\* routines that had used the connections.
C17_Witness ==
    /\ closePc = "done"
    /\ scanChan.made
    /\ \A i \in Routines : routine[i] = "done"
    /\ work >= 1
    /\ dbConn = "closed"
    /\ rpcConn = "closed"

====
